---- MODULE Spec2Model ----
(***************************************************************************)
(* Physician self-assessment tool (src/app.py): the question catalog, the  *)
(* scoring engine calculate_scores, the recommendation generator           *)
(* get_recommendations, validate_responses, and the Streamlit session of   *)
(* main() with its submitted flag.                                         *)
(*                                                                         *)
(* Units.  Weights are held in tenths (1.2 is 12) and scores in hundredths *)
(* (4.0 is 400): calculate_scores returns values rounded to two decimals,  *)
(* and the thresholds 3.0, 3.5, 4.0 and 4.5 are exact in binary floating   *)
(* point, so comparing hundredths decides what the float comparison does.  *)
(*                                                                         *)
(* A Python dict is a sequence of records in insertion order.              *)
(***************************************************************************)
EXTENDS Integers, Sequences, FiniteSets, TLC

VARIABLES
    weights,          \* the weight of every question of QUESTIONS, in tenths
    radio,            \* the form's radio widgets: category -> answers shown
    edits,            \* options the user has changed while filling the form
    responses,        \* st.session_state.responses
    submitted,        \* st.session_state.submitted
    pc,               \* where the session (or the call under test) stands
    missing,          \* local of main: the last validate_responses result
    scored,           \* whether the last pass ran the scoring of tab2/tab3
    category_scores,  \* local of main, from calculate_scores
    overall_score,    \* local of main, from calculate_scores
    category_details, \* local of main, from calculate_scores
    recommendations,  \* local of main, from get_recommendations
    action_plan,      \* tab3: the expanders shown under "Improvement Areas & Actions"
    results_json,     \* tab3: the text handed to the "Download JSON" button
    excel_data        \* tab3: the workbook handed to the "Download Excel Report" button

vars == <<weights, radio, edits, responses, submitted, pc, missing, scored,
          category_scores, overall_score, category_details, recommendations,
          action_plan, results_json, excel_data>>

-----------------------------------------------------------------------------
(* Bounds of the model                                                     *)

\* Options the user changes in the form before pressing Submit.
MaxEdits == 1

\* Malformations applied to a well-formed ResponseSet to build a malformed one.
MaxDefects == 1

\* The largest weight, in tenths, tried in place of a catalog weight.
MaxWeight == 25

-----------------------------------------------------------------------------
(* The catalog QUESTIONS                                                   *)

PersonalConnect == "Personal Connect (Do You Care About Me?)"
TrustOfYourTrade == "Trust of Your Trade (Are You the Best?)"
SocialTrust == "Social Trust (Can I Trust You?)"
TreatingStyle == "Treating Style (Are You Treating Me Differently?)"

\* A key that is not in the catalog.
UnknownCategory == "Bedside Manner"

\* The catalog's keys in the order QUESTIONS.items() yields them.
Categories == <<PersonalConnect, TrustOfYourTrade, SocialTrust, TreatingStyle>>

CategorySet == {Categories[k] : k \in 1..Len(Categories)}

\* Each question has five option labels: len(q["options"]).
OptionCount == 5

\* The answer the scoring takes as the highest: "max_weighted += 4 * weight".
MaxAnswer == 4

\* The top of the score scale, 5.0, in hundredths: "* 5".
FullScale == 500

\* Python's None, held as an integer outside every answer and score.
None == -1

\* q["weight"] as the source gives it, in tenths, per category, in question
\* order.
Weights ==
    (PersonalConnect :> <<12, 10, 11, 13, 10>>) @@
    (TrustOfYourTrade :> <<10, 12, 11, 10, 13>>) @@
    (SocialTrust :> <<12, 13, 11, 12, 10>>) @@
    (TreatingStyle :> <<11, 13, 12, 10, 11>>)

\* QUESTIONS[category]: the questions of a category, each with its option
\* count and its weight (the question text is its position).  The weights are
\* read from the variable, which holds Weights wherever the program runs
\* with its own catalog.
QUESTIONS ==
    [c \in CategorySet |->
        [i \in 1..Len(weights[c]) |-> [options |-> OptionCount, weight |-> weights[c][i]]]]

\* The number of questions of a category: len(QUESTIONS[category]).
QuestionCount(category) == Len(QUESTIONS[category])

\* The answers one question accepts: range(len(q["options"])).
Answers == 0..(OptionCount - 1)

\* category.split('(')[0].strip()
ShortName(category) ==
    CASE category = PersonalConnect -> "Personal Connect"
      [] category = TrustOfYourTrade -> "Trust of Your Trade"
      [] category = SocialTrust -> "Social Trust"
      [] category = TreatingStyle -> "Treating Style"
      [] OTHER -> category

-----------------------------------------------------------------------------
(* Dicts as sequences of [category, ...] records                           *)

Keys(d) == {d[k].category : k \in 1..Len(d)}

\* d[category] of a responses dict.
AnswersOf(d, category) ==
    d[CHOOSE k \in 1..Len(d) : d[k].category = category].answers

\* d[category] of a category_scores dict.
ScoreOf(d, category) ==
    d[CHOOSE k \in 1..Len(d) : d[k].category = category].score

\* responses[category] = answers: an existing key keeps its place, a new key
\* goes last.
DictSet(d, category, answers) ==
    IF category \in Keys(d)
    THEN [k \in 1..Len(d) |->
            IF d[k].category = category
            THEN [category |-> category, answers |-> answers]
            ELSE d[k]]
    ELSE Append(d, [category |-> category, answers |-> answers])

RECURSIVE SumSeq(_)
SumSeq(s) == IF s = <<>> THEN 0 ELSE Head(s) + SumSeq(Tail(s))

-----------------------------------------------------------------------------
(* calculate_scores                                                        *)

\* round(x, 2) of x = num/den hundredths, num >= 0, den > 0: the nearest
\* hundredth.  The float that the code rounds carries the error of its binary
\* arithmetic, which decides the direction only when num/den lies exactly
\* halfway between two hundredths; up says which way that error falls.
Round(num, den, up) ==
    LET q == num \div den
        r == num % den
    IN  IF 2 * r < den THEN q
        ELSE IF 2 * r > den THEN q + 1
        ELSE IF up THEN q + 1 ELSE q

IsTie(num, den) == 2 * (num % den) = den

\* The inner loop's fault: QUESTIONS[category] (KeyError), [i] beyond the
\* category's questions (IndexError), None * weight (TypeError).
CategoryFault(category, answers) ==
    \/ category \notin CategorySet
    \/ Len(answers) > Len(QUESTIONS[category])
    \/ \E i \in 1..Len(answers) : answers[i] = None

\* A variant of WeightedScore that scores the options in reverse ("(4 -
\* answer) * weight").
WeightedScoreReversed(category, answers, i) ==
    (MaxAnswer - answers[i]) * QUESTIONS[category][i].weight

\* A variant of WeightedScore that counts the options from 1 ("(answer + 1)
\* * weight").
WeightedScoreOneBased(category, answers, i) ==
    (answers[i] + 1) * QUESTIONS[category][i].weight

\* weighted_score = answer * weight of question i (tenths).
WeightedScore(category, answers, i) == answers[i] * QUESTIONS[category][i].weight

\* question_scores: the inner loop "for i, answer in enumerate(answers)", from
\* question i on.
RECURSIVE QuestionScores(_, _, _)
QuestionScores(category, answers, i) ==
    IF i > Len(answers) THEN <<>>
    ELSE <<[question |-> i,
            score |-> answers[i],
            max_score |-> MaxAnswer,
            weighted_score |-> WeightedScore(category, answers, i)]>>
         \o QuestionScores(category, answers, i + 1)

\* total_weighted (tenths): the sum of the weighted scores of question_scores,
\* from entry i on.
RECURSIVE TotalWeightedFrom(_, _)
TotalWeightedFrom(question_scores, i) ==
    IF i > Len(question_scores) THEN 0
    ELSE question_scores[i].weighted_score + TotalWeightedFrom(question_scores, i + 1)

\* max_weighted (tenths): "max_weighted += 4 * weight", from question i on.
RECURSIVE MaxWeightedFrom(_, _, _)
MaxWeightedFrom(category, answers, i) ==
    IF i > Len(answers) THEN 0
    ELSE MaxAnswer * QUESTIONS[category][i].weight + MaxWeightedFrom(category, answers, i + 1)

\* A variant of MaxWeighted that leaves out the factor 4 ("max_weighted +=
\* weight"): the sum of the weights alone.
RECURSIVE WeightSumFrom(_, _, _)
WeightSumFrom(category, answers, i) ==
    IF i > Len(answers) THEN 0
    ELSE QUESTIONS[category][i].weight + WeightSumFrom(category, answers, i + 1)

MaxWeightedUnscaled(category, answers) == WeightSumFrom(category, answers, 1)

\* A variant of MaxWeighted that takes every weight as 1.0 ("max_weighted +=
\* 4").
MaxWeightedUnit(category, answers) == MaxAnswer * 10 * Len(answers)

MaxWeighted(category, answers) == MaxWeightedFrom(category, answers, 1)

\* normalized_score = (total_weighted / max_weighted) * 5 if max_weighted > 0
\* else 0, unrounded, in hundredths, as the fraction <<numerator, denominator>>.
NormalizedScore(total_weighted, max_weighted) ==
    IF max_weighted > 0
    THEN <<FullScale * total_weighted, max_weighted>>
    ELSE <<0, 1>>

\* category_details[category], after the inner loop.
CategoryDetail(category, answers) ==
    LET question_scores == QuestionScores(category, answers, 1)
        total_weighted == TotalWeightedFrom(question_scores, 1)
        max_weighted == MaxWeighted(category, answers)
    IN  [category |-> category,
         raw_score |-> total_weighted,
         max_possible |-> max_weighted,
         normalized_score |-> NormalizedScore(total_weighted, max_weighted),
         question_details |-> question_scores]

\* category_scores[category] = round(normalized_score, 2)
CategoryScore(detail, up) ==
    Round(detail.normalized_score[1], detail.normalized_score[2], up)

\* sum(category_scores.values()), from the k-th item on.
RECURSIVE SumScores(_, _)
SumScores(scores, k) ==
    IF k > Len(scores) THEN 0 ELSE scores[k].score + SumScores(scores, k + 1)

\* overall_score = round(sum(category_scores.values()) / len(category_scores), 2)
\* if category_scores else 0
OverallScore(scores, up) ==
    IF scores = <<>> THEN 0
    ELSE Round(SumScores(scores, 1), Len(scores), up)

\* The except branch: return {}, 0, {}
FaultResult ==
    [category_scores |-> <<>>, overall_score |-> 0, category_details |-> <<>>]

\* The dict category_details that the loop "for category, answers in
\* responses.items()" builds, from the k-th item on.
RECURSIVE DetailsFrom(_, _)
DetailsFrom(resp, k) ==
    IF k > Len(resp) THEN <<>>
    ELSE <<CategoryDetail(resp[k].category, resp[k].answers)>> \o DetailsFrom(resp, k + 1)

\* The dict category_scores that the same loop builds, from the k-th item
\* on.  fp.cats: the categories whose float error falls upward at an exact tie.
RECURSIVE ScoresFrom(_, _, _)
ScoresFrom(details, fp, k) ==
    IF k > Len(details) THEN <<>>
    ELSE <<[category |-> details[k].category,
            score |-> CategoryScore(details[k], details[k].category \in fp.cats)]>>
         \o ScoresFrom(details, fp, k + 1)

\* Some item of responses makes the loop raise.
ScoringFault(resp) ==
    \E k \in 1..Len(resp) : CategoryFault(resp[k].category, resp[k].answers)

\* A variant of calculate_scores whose except branch returns what the loop
\* had built when it raised: the items before the first faulty one.
RECURSIVE FirstFault(_, _)
FirstFault(resp, k) ==
    IF k > Len(resp) \/ CategoryFault(resp[k].category, resp[k].answers)
    THEN k
    ELSE FirstFault(resp, k + 1)

calculate_scores_partial(resp, fp) ==
    LET done == SubSeq(resp, 1, FirstFault(resp, 1) - 1)
        details == DetailsFrom(done, 1)
        scores == ScoresFrom(details, fp, 1)
    IN  [category_scores |-> scores,
         overall_score |-> IF ScoringFault(resp) THEN 0
                           ELSE OverallScore(scores, fp.overall),
         category_details |-> details]

\* calculate_scores(responses).  fp is the direction the floating-point error
\* takes at each exact rounding tie: fp.cats per category, fp.overall for the
\* overall score.
calculate_scores(resp, fp) ==
    IF ScoringFault(resp)
    THEN FaultResult
    ELSE LET details == DetailsFrom(resp, 1)
             scores == ScoresFrom(details, fp, 1)
         IN  [category_scores |-> scores,
              overall_score |-> OverallScore(scores, fp.overall),
              category_details |-> details]

\* The categories whose normalized score lies exactly halfway between two
\* hundredths (none when the call faults).
TieCategories(resp) ==
    IF ScoringFault(resp)
    THEN {}
    ELSE LET details == DetailsFrom(resp, 1)
         IN  {details[k].category : k \in
                {j \in 1..Len(details) :
                    IsTie(details[j].normalized_score[1], details[j].normalized_score[2])}}

\* The floating-point error directions that can make a difference on resp.
FpErrors(resp) ==
    {[cats |-> ups, overall |-> ou] :
        ups \in SUBSET TieCategories(resp), ou \in BOOLEAN}

-----------------------------------------------------------------------------
(* validate_responses                                                      *)

\* The entries f"{category}: Question {i+1}" of one category, from question
\* i on: one <<category, i>> per answer that is None.
RECURSIVE MissingFrom(_, _, _)
MissingFrom(category, answers, i) ==
    IF i > Len(answers) THEN <<>>
    ELSE (IF answers[i] = None THEN << <<category, i>> >> ELSE <<>>)
         \o MissingFrom(category, answers, i + 1)

\* validate_responses(responses): the loop over responses.items(), from the
\* k-th item on.
RECURSIVE MissingItems(_, _)
MissingItems(resp, k) ==
    IF k > Len(resp) THEN <<>>
    ELSE MissingFrom(resp[k].category, resp[k].answers, 1) \o MissingItems(resp, k + 1)

validate_responses(resp) == MissingItems(resp, 1)

-----------------------------------------------------------------------------
(* get_recommendations                                                     *)

\* The tier thresholds on the overall score and the per-category target, in
\* hundredths.
ExcellentMin == 450
VeryGoodMin == 400
GoodMin == 350
FairMin == 300
TargetScore == 400

\* A variant of TierLevel whose lower bounds are exclusive (> for >=).
TierLevelExclusive(overall) ==
    IF overall > ExcellentMin THEN "Excellent"
    ELSE IF overall > VeryGoodMin THEN "Very Good"
    ELSE IF overall > GoodMin THEN "Good"
    ELSE IF overall > FairMin THEN "Fair"
    ELSE "Needs Improvement"

\* The if/elif chain on overall_score: the first tier that qualifies.
TierLevel(overall) ==
    IF overall >= ExcellentMin THEN "Excellent"
    ELSE IF overall >= VeryGoodMin THEN "Very Good"
    ELSE IF overall >= GoodMin THEN "Good"
    ELSE IF overall >= FairMin THEN "Fair"
    ELSE "Needs Improvement"

TierMessage(level) ==
    CASE level = "Excellent" ->
           "You demonstrate exceptional patient-centered care across all dimensions. Continue your excellent work!"
      [] level = "Very Good" ->
           "You show strong patient care skills with minor areas for enhancement."
      [] level = "Good" ->
           "You have good patient care skills. Focus on the areas below to reach excellence."
      [] level = "Fair" ->
           "You have a foundation to build on. Improvement needed in several areas."
      [] OTHER ->
           "Your patient care approach needs substantial development. Prioritize the recommendations below."

TierIcon(level) ==
    CASE level = "Excellent" -> "dart"
      [] level = "Very Good" -> "thumbs up"
      [] level = "Good" -> "chart increasing"
      [] level = "Fair" -> "warning"
      [] OTHER -> "rotating light"

\* The summary entry appended first.  A message is the sequence of its parts.
SummaryEntry(overall) ==
    [level |-> TierLevel(overall),
     message |-> <<TierMessage(TierLevel(overall))>>,
     icon |-> TierIcon(TierLevel(overall))]

\* A variant of NeedsImprovement that takes in the target itself (<= for <).
NeedsImprovementInclusive(score) == score <= TargetScore

\* score < 4.0
NeedsImprovement(score) == score < TargetScore

\* improvement_categories = [cat for cat, score in category_scores.items()
\*                           if score < 4.0]
ImprovementCategories(scores) ==
    LET low == SelectSeq(scores, LAMBDA e : NeedsImprovement(e.score))
    IN  [k \in 1..Len(low) |-> low[k].category]

\* The "Focus Areas" entry: the prefix and the short names that ', '.join
\* strings together, in the order of improvement_categories.
FocusEntry(improvement) ==
    [level |-> "Focus Areas",
     message |-> <<"Priority areas for improvement: ">>
                 \o [k \in 1..Len(improvement) |-> ShortName(improvement[k])],
     icon |-> "dart"]

\* The fixed action list of the branch that `"<short name>" in category`
\* selects; <<>> when no branch does.
Actions(category) ==
    CASE ShortName(category) = "Personal Connect" ->
           <<"Make it a habit to sit down during all patient consultations",
             "Call patients by name and ask about their personal interests at each visit",
             "Set calendar reminders to follow up with patients after procedures",
             "Practice active listening - allow 2-3 seconds of silence after patients speak",
             "Schedule 5-10 extra minutes for new patient appointments">>
      [] ShortName(category) = "Trust of Your Trade" ->
           <<"Subscribe to 2-3 key journals in your specialty",
             "Register for at least 2 conferences per year with action plan implementation",
             "Join or start a journal club with colleagues",
             "Dedicate 30 minutes weekly to reading latest research (Friday afternoons work well)",
             "Complete 25+ CME credits annually focused on clinical practice gaps">>
      [] ShortName(category) = "Social Trust" ->
           <<"Use the BATHE technique (Background, Affect, Trouble, Handling, Empathy) for sensitive topics",
             "Start appointments with 'What's most important for us to discuss today?'",
             "Create a checklist for following up on every patient concern",
             "Practice reflective statements: 'What I hear you saying is...'",
             "Document patient preferences and follow up on them at next visit">>
      [] ShortName(category) = "Treating Style" ->
           <<"Complete implicit bias training annually",
             "Review practice data annually for demographic treatment patterns",
             "Use the SAFETIPS mnemonic (Sex, Age, Faith, Ethnicity, Trauma, Identity, Personality, Status) in patient assessments",
             "Partner with community organizations to understand local health determinants",
             "Regularly audit your own clinical decisions for consistency across patient groups">>
      [] OTHER -> <<>>

\* A variant of DetailEntries that takes a score of 0.0 for no score ("if
\* score and score < 4.0").
RECURSIVE DetailEntriesOfNonZero(_, _)
DetailEntriesOfNonZero(scores, k) ==
    IF k > Len(scores) THEN <<>>
    ELSE (IF scores[k].score # 0 /\ NeedsImprovement(scores[k].score)
             /\ Actions(scores[k].category) # <<>>
          THEN <<[category |-> scores[k].category,
                  score |-> scores[k].score,
                  actions |-> Actions(scores[k].category)]>>
          ELSE <<>>)
         \o DetailEntriesOfNonZero(scores, k + 1)

\* The loop "for category, score in category_scores.items()", from the k-th
\* item on: one entry per item with score < 4.0 whose category a branch names.
RECURSIVE DetailEntries(_, _)
DetailEntries(scores, k) ==
    IF k > Len(scores) THEN <<>>
    ELSE (IF NeedsImprovement(scores[k].score) /\ Actions(scores[k].category) # <<>>
          THEN <<[category |-> scores[k].category,
                  score |-> scores[k].score,
                  actions |-> Actions(scores[k].category)]>>
          ELSE <<>>)
         \o DetailEntries(scores, k + 1)

\* What the try block raises: None >= 4.5 and None < 4.0 are TypeErrors.
RecommendationFault(scores, overall) ==
    \/ overall = None
    \/ \E k \in 1..Len(scores) : scores[k].score = None

\* A variant of RecommendationList that appends the "Focus Areas" entry
\* without looking whether improvement_categories is empty.
RecommendationListWithFocus(scores, overall) ==
    <<SummaryEntry(overall)>>
    \o <<FocusEntry(ImprovementCategories(scores))>>
    \o DetailEntries(scores, 1)

\* The list the try block builds when nothing raises.
RecommendationList(scores, overall) ==
    <<SummaryEntry(overall)>>
    \o (IF ImprovementCategories(scores) # <<>>
        THEN <<FocusEntry(ImprovementCategories(scores))>>
        ELSE <<>>)
    \o DetailEntries(scores, 1)

\* A variant of get_recommendations whose except branch returns the list as
\* far as it was built: the summary entry when a category score raised.
get_recommendations_partial(scores, overall) ==
    IF overall = None THEN <<>>
    ELSE IF RecommendationFault(scores, overall) THEN <<SummaryEntry(overall)>>
    ELSE RecommendationList(scores, overall)

\* get_recommendations(category_scores, overall_score); the except branch
\* returns [].
get_recommendations(scores, overall) ==
    IF RecommendationFault(scores, overall)
    THEN <<>>
    ELSE RecommendationList(scores, overall)

-----------------------------------------------------------------------------
(* tab3: the action plan shown, the JSON export and the spreadsheet        *)

\* The score under which a category entry is of priority "High": 3.0.
HighPriorityBelow == 300

\* f"**Priority Level:** {'High' if rec['score'] < 3.0 else 'Medium'}"
PriorityShown(rec) == IF rec.score < HighPriorityBelow THEN "High" ELSE "Medium"

\* The loop "for rec in recommendations[1:]", from the k-th entry on: one
\* expander per entry that has a 'category', with its title, its priority and
\* its numbered actions.
RECURSIVE ActionPlanShown(_, _)
ActionPlanShown(recs, k) ==
    IF k > Len(recs) THEN <<>>
    ELSE (IF "category" \in DOMAIN recs[k]
          THEN <<[category |-> recs[k].category,
                  title |-> ShortName(recs[k].category),
                  score |-> recs[k].score,
                  priority |-> PriorityShown(recs[k]),
                  actions |-> recs[k].actions]>>
          ELSE <<>>)
         \o ActionPlanShown(recs, k + 1)

\* A variant of PriorityWritten that takes in 3.0 itself (<= for <).
PriorityWrittenInclusive(rec) ==
    IF (IF "score" \in DOMAIN rec THEN rec.score ELSE FullScale) <= HighPriorityBelow
    THEN "High"
    ELSE "Medium"

\* 'High' if rec.get('score', 5) < 3.0 else 'Medium'
PriorityWritten(rec) ==
    IF (IF "score" \in DOMAIN rec THEN rec.score ELSE FullScale) < HighPriorityBelow
    THEN "High"
    ELSE "Medium"

\* The rows one entry gives rec_data: one per action of an entry that has
\* 'actions'.
ActionRows(rec) ==
    IF "actions" \in DOMAIN rec
    THEN [j \in 1..Len(rec.actions) |->
             [Category |-> IF "category" \in DOMAIN rec THEN rec.category ELSE "General",
              Priority |-> PriorityWritten(rec),
              ActionItem |-> rec.actions[j]]]
    ELSE <<>>

RECURSIVE ActionPlanRows(_, _)
ActionPlanRows(recs, k) ==
    IF k > Len(recs) THEN <<>>
    ELSE ActionRows(recs[k]) \o ActionPlanRows(recs, k + 1)

\* export_to_excel(category_scores, overall_score, category_details,
\* responses): the sheets 'Summary' and 'Action Plan' of the workbook.  The
\* function calls get_recommendations itself.
export_to_excel(scores, overall, details, resp) ==
    LET rec_data == ActionPlanRows(get_recommendations(scores, overall), 1)
    IN  [Summary |-> [k \in 1..Len(scores) |->
                         [Category |-> scores[k].category, Score |-> scores[k].score]],
         ActionPlan |-> IF rec_data # <<>>
                        THEN rec_data
                        ELSE <<[Note |-> "No specific recommendations needed"]>>]

\* A variant of JsonFloat that writes one decimal ("%.1f" of the truncated
\* value).
JsonFloatOneDecimal(h) == [whole |-> h \div 100, decimals |-> <<(h % 100) \div 10>>]

\* json.dumps of a float that round(x, 2) returned, held in hundredths: the
\* shortest decimal that reads back as the same float, that is the whole
\* part, the point, and one or two decimals ("5.0", "3.1", "3.13").
JsonFloat(h) ==
    [whole |-> h \div 100,
     decimals |-> IF (h % 100) % 10 = 0
                  THEN <<(h % 100) \div 10>>
                  ELSE <<(h % 100) \div 10, (h % 100) % 10>>]

\* json.dumps of an answer: an int as its digits, None as null.
JsonAnswer(a) == IF a = None THEN [token |-> "null"] ELSE [int |-> a]

\* json.dumps(results): the members of the object in the order of the dict.
\* 'timestamp' is the clock's reading and is left out; category_details is
\* carried as it is.
json_dumps(results) ==
    [overall_score |-> JsonFloat(results.overall_score),
     category_scores |->
        [k \in 1..Len(results.category_scores) |->
            [key |-> results.category_scores[k].category,
             value |-> JsonFloat(results.category_scores[k].score)]],
     category_details |-> results.category_details,
     responses |->
        [k \in 1..Len(results.responses) |->
            [key |-> results.responses[k].category,
             value |-> [i \in 1..Len(results.responses[k].answers) |->
                           JsonAnswer(results.responses[k].answers[i])]]]]

\* What a JSON decoder reads from the text of a number with decimals.
ParseFloat(t) ==
    t.whole * 100
    + (IF Len(t.decimals) = 1 THEN t.decimals[1] * 10
       ELSE t.decimals[1] * 10 + t.decimals[2])

ParseAnswer(t) == IF "token" \in DOMAIN t THEN None ELSE t.int

\* json.loads(text)
json_loads(text) ==
    [overall_score |-> ParseFloat(text.overall_score),
     category_scores |->
        [k \in 1..Len(text.category_scores) |->
            [category |-> text.category_scores[k].key,
             score |-> ParseFloat(text.category_scores[k].value)]],
     category_details |-> text.category_details,
     responses |->
        [k \in 1..Len(text.responses) |->
            [category |-> text.responses[k].key,
             answers |-> [i \in 1..Len(text.responses[k].value) |->
                             ParseAnswer(text.responses[k].value[i])]]]]

\* results = {"timestamp": ..., "overall_score": overall_score, ...}
Results(scores, overall, details, resp) ==
    [overall_score |-> overall,
     category_scores |-> scores,
     category_details |-> details,
     responses |-> resp]

\* What a pass shows and offers when tab3 is not rendered, or before any pass.
NoActionPlan == <<>>
NoDownload == [offered |-> FALSE]

\* tab3 with submitted set: recommendations from the scores of tab2, the
\* expanders, the JSON download and the spreadsheet download.
ActionPlanTab(scores, overall, details, resp) ==
    /\ recommendations' = get_recommendations(scores, overall)
    /\ action_plan' = ActionPlanShown(recommendations', 2)
    /\ results_json' = json_dumps(Results(scores, overall, details, resp))
    /\ excel_data' = export_to_excel(scores, overall, details, resp)

-----------------------------------------------------------------------------
(* The form of main()                                                      *)

\* st.radio without index: every widget starts on its first option, 0.
DefaultRadio == [c \in CategorySet |-> [i \in 1..QuestionCount(c) |-> 0]]

\* The loop "for category, questions in QUESTIONS.items()" of the form, from
\* the k-th category on: st.session_state.responses[category] =
\* category_responses, the values of that category's radios.
RECURSIVE FormLoop(_, _, _)
FormLoop(resp, widgets, k) ==
    IF k > Len(Categories) THEN resp
    ELSE FormLoop(DictSet(resp, Categories[k], widgets[Categories[k]]), widgets, k + 1)

\* A variant of FormResponses that stores the last category only (the
\* assignment to responses[category] placed after the loop).
FormResponsesLastOnly(resp, widgets) ==
    DictSet(resp, Categories[Len(Categories)], widgets[Categories[Len(Categories)]])

\* responses after the form has been rendered.
FormResponses(resp, widgets) == FormLoop(resp, widgets, 1)

\* The empty dict.
EmptyDict == <<>>

-----------------------------------------------------------------------------
(* Inputs of the functions under test                                      *)

\* Every category of the catalog has as many questions as the first.
RowLength == QuestionCount(Categories[1])

\* The ResponseSets in which the four categories hold the same row of answers:
\* every row of five answers occurs, in every category.
SameRowSets ==
    {FormResponses(EmptyDict, [c \in CategorySet |-> row]) :
        row \in [1..RowLength -> Answers]}

\* ... and those whose answers are all one value.
UniformSets ==
    {FormResponses(EmptyDict, [c \in CategorySet |-> [i \in 1..RowLength |-> a]]) :
        a \in Answers}

\* One malformation of a dict resp: an answer that is None, one answer too
\* many, one too few, an item removed, a key that is not in the catalog.
WithAnswers(resp, k, answers) ==
    [resp EXCEPT ![k] = [category |-> resp[k].category, answers |-> answers]]

WithoutItem(resp, k) ==
    [j \in 1..(Len(resp) - 1) |-> IF j < k THEN resp[j] ELSE resp[j + 1]]

Malformations(resp) ==
    {WithAnswers(resp, k, [resp[k].answers EXCEPT ![i] = None]) :
        k \in 1..Len(resp), i \in 1..RowLength}
    \cup {WithAnswers(resp, k, Append(resp[k].answers, MaxAnswer)) : k \in 1..Len(resp)}
    \cup {WithAnswers(resp, k, SubSeq(resp[k].answers, 1, Len(resp[k].answers) - 1)) :
            k \in 1..Len(resp)}
    \cup {WithoutItem(resp, k) : k \in 1..Len(resp)}
    \cup {[resp EXCEPT ![k] = [category |-> UnknownCategory, answers |-> resp[k].answers]] :
            k \in {j \in 1..Len(resp) : UnknownCategory \notin Keys(resp)}}

RECURSIVE Malformed(_)
Malformed(n) ==
    IF n = 0 THEN UniformSets
    ELSE Malformed(n - 1)
         \cup UNION {Malformations(resp) :
                        resp \in {r \in Malformed(n - 1) :
                                    \A k \in 1..Len(r) : Len(r[k].answers) = RowLength}}

\* The inputs of calculate_scores and validate_responses.
CalcInputs == SameRowSets \cup Malformed(MaxDefects) \cup {EmptyDict}

\* The state of the locals before a pass has set them.
NoScores == FaultResult

-----------------------------------------------------------------------------
(* SpecCalc: validate_responses and the pipeline calculate_scores then     *)
(* get_recommendations, applied to every input of CalcInputs               *)

InitCalc ==
    /\ weights = Weights
    /\ radio = DefaultRadio
    /\ edits = 0
    /\ responses \in CalcInputs
    /\ submitted = FALSE
    /\ pc = "call"
    /\ missing = <<>>
    /\ scored = FALSE
    /\ category_scores = NoScores.category_scores
    /\ overall_score = NoScores.overall_score
    /\ category_details = NoScores.category_details
    /\ recommendations = <<>>
    /\ action_plan = NoActionPlan
    /\ results_json = NoDownload
    /\ excel_data = NoDownload

\* missing = validate_responses(st.session_state.responses)
CallValidate ==
    /\ pc = "call"
    /\ missing' = validate_responses(responses)
    /\ pc' = "validated"
    /\ UNCHANGED <<weights, action_plan, results_json, excel_data, radio,
                   edits, responses, submitted, scored, category_scores,
                   overall_score, category_details, recommendations>>

\* category_scores, overall_score, category_details =
\*     calculate_scores(st.session_state.responses)
\* recommendations = get_recommendations(category_scores, overall_score)
CallScores ==
    /\ pc = "call"
    /\ \E fp \in FpErrors(responses) :
         LET result == calculate_scores(responses, fp)
         IN  /\ category_scores' = result.category_scores
             /\ overall_score' = result.overall_score
             /\ category_details' = result.category_details
             /\ ActionPlanTab(result.category_scores, result.overall_score,
                              result.category_details, responses)
    /\ scored' = TRUE
    /\ pc' = "scored"
    /\ UNCHANGED <<weights, radio, edits, responses, submitted, missing>>

NextCalc == CallValidate \/ CallScores

SpecCalc == InitCalc /\ [][NextCalc]_vars

-----------------------------------------------------------------------------
(* Properties of calculate_scores, validate_responses and the pipeline     *)

\* A valid ResponseSet: exactly the four catalog categories, each with five
\* answers in 0..4.
ValidResponseSet(resp) ==
    /\ Len(resp) = Len(Categories)
    /\ Keys(resp) = CategorySet
    /\ \A k \in 1..Len(resp) :
         /\ Len(resp[k].answers) = 5
         /\ \A i \in 1..5 : resp[k].answers[i] \in 0..4

RECURSIVE GCD(_, _)
GCD(a, b) == IF b = 0 THEN a ELSE GCD(b, a % b)

LCM(a, b) == (a \div GCD(a, b)) * b

RECURSIVE LCMSeq(_)
LCMSeq(s) == IF s = <<>> THEN 1 ELSE LCM(Head(s), LCMSeq(Tail(s)))

Abs(x) == IF x < 0 THEN -x ELSE x

\* The arithmetic mean of the unrounded normalized scores of details, in
\* hundredths, as a fraction <<numerator, denominator>>.
MeanOfNormalized(details) ==
    LET dens == [k \in 1..Len(details) |-> details[k].normalized_score[2]]
        l == LCMSeq(dens)
        nums == [k \in 1..Len(details) |->
                    details[k].normalized_score[1] * (l \div dens[k])]
    IN  <<SumSeq(nums), Len(details) * l>>

\* x is a hundredth nearest to the fraction f (either neighbour at a tie).
IsNearest(x, f) == 2 * Abs(x * f[2] - f[1]) <= f[2]

\* C1: for every valid ResponseSet calculate_scores returns a score in [0,5]
\* for each of the four categories and an overall score in [0,5].
C1_ScoresInRange ==
    (pc = "scored" /\ ValidResponseSet(responses)) =>
        /\ Len(category_scores) = Len(Categories)
        /\ \A k \in 1..Len(category_scores) :
             /\ category_scores[k].category = Categories[k]
             /\ category_scores[k].score >= 0
             /\ category_scores[k].score <= 500
        /\ overall_score >= 0
        /\ overall_score <= 500

\* Answers 0,0,3,4,0 in every category: scores 1.90, 1.63, 1.75, 1.67 and
\* overall 1.74.
C1_Witness ==
    /\ pc = "scored"
    /\ ValidResponseSet(responses)
    /\ \A k \in 1..Len(responses) : responses[k].answers = <<0, 0, 3, 4, 0>>
    /\ [k \in 1..Len(category_scores) |-> category_scores[k].score]
          = <<190, 163, 175, 167>>
    /\ overall_score = 174

\* No rounding of the computation on resp met an exact tie: the result does
\* not rest on the float error.
NoTie(resp, scores) ==
    /\ TieCategories(resp) = {}
    /\ scores # <<>> => ~IsTie(SumScores(scores, 1), Len(scores))

\* C2: for every valid ResponseSet the overall score is the mean of the
\* unrounded normalized category scores, rounded to two decimals once (stated
\* for the ResponseSets on which no rounding meets an exact tie).
C2_OverallRoundsUnroundedMean ==
    (pc = "scored" /\ ValidResponseSet(responses) /\ NoTie(responses, category_scores)) =>
        IsNearest(overall_score, MeanOfNormalized(category_details))

\* Every question of every catalog category has an answer that is not None.
AllAnswered(resp) ==
    \A c \in CategorySet :
        /\ c \in Keys(resp)
        /\ Len(AnswersOf(resp, c)) = Len(QUESTIONS[c])
        /\ \A i \in 1..Len(AnswersOf(resp, c)) : AnswersOf(resp, c)[i] # None

\* C3: validate_responses returns the empty list if and only if every catalog
\* category's answer list has the length of its question list and no entry
\* is None.
C3_EmptyIffAllAnswered ==
    (pc = "validated") => ((missing = <<>>) <=> AllAnswered(responses))

\* The categories, in catalog order, whose unrounded normalized score is
\* below 4.0.
LowNormalized(details) ==
    LET low == SelectSeq(details,
                   LAMBDA d : d.normalized_score[1] < 400 * d.normalized_score[2])
    IN  [k \in 1..Len(low) |-> ShortName(low[k].category)]

FocusEntries(recs) ==
    SelectSeq(recs, LAMBDA r : "level" \in DOMAIN r /\ r.level = "Focus Areas")

\* C5: in the pipeline the result has a "Focus Areas" entry if and only if
\* some category's normalized score is below 4.0, and the entry lists exactly
\* the short names of those categories, in catalog order.
C5_FocusAreasOfNormalized ==
    (pc = "scored" /\ ValidResponseSet(responses)) =>
        LET low == LowNormalized(category_details)
            focus == FocusEntries(recommendations)
        IN  /\ (focus # <<>>) <=> (low # <<>>)
            /\ focus # <<>> =>
                 /\ Len(focus) = 1
                 /\ Tail(focus[1].message) = low

\* A ResponseSet on which calculate_scores faults: an answer that is None,
\* more answers than the category has questions, or a key not in the catalog.
IsMalformed(resp) ==
    \E k \in 1..Len(resp) :
        \/ resp[k].category \notin CategorySet
        \/ Len(resp[k].answers) > 5
        \/ \E i \in 1..Len(resp[k].answers) : resp[k].answers[i] = None

\* C9: on a malformed ResponseSet calculate_scores returns, to a caller that
\* goes on, exactly the empty score mapping, overall score 0 and the empty
\* detail mapping, with no score of a category processed before the fault.
C9_FaultGivesEmptyResult ==
    (pc = "scored" /\ IsMalformed(responses)) =>
        /\ category_scores = <<>>
        /\ overall_score = 0
        /\ category_details = <<>>

\* The fault lies in the last category: three categories were scored first.
C9_Witness ==
    /\ pc = "scored"
    /\ Len(responses) = Len(Categories)
    /\ \A k \in 1..3 : ~IsMalformed(<<responses[k]>>)
    /\ IsMalformed(<<responses[4]>>)
    /\ category_scores = <<>>
    /\ recommendations # <<>>

\* Category c of resp holds five answers, all equal to a.
AllAnswersAre(resp, c, a) ==
    /\ c \in Keys(resp)
    /\ Len(AnswersOf(resp, c)) = 5
    /\ \A i \in 1..5 : AnswersOf(resp, c)[i] = a

\* The standard catalog answered with one value throughout.
AnsweredThroughout(resp, a) ==
    /\ weights = Weights
    /\ Len(resp) = 4
    /\ \A c \in CategorySet : AllAnswersAre(resp, c, a)

\* C15: with the standard catalog and every answer 4, every category score
\* and the overall score are 5.0 and the recommendation list is the
\* "Excellent" summary entry alone.
C15_AllFourExample ==
    (pc = "scored" /\ AnsweredThroughout(responses, 4)) =>
        /\ Len(category_scores) = 4
        /\ \A c \in CategorySet :
             c \in Keys(category_scores) /\ ScoreOf(category_scores, c) = 500
        /\ overall_score = 500
        /\ Len(recommendations) = 1
        /\ DOMAIN recommendations[1] = {"level", "message", "icon"}
        /\ recommendations[1].level = "Excellent"

\* The all-4 assessment has been scored.
C15_Witness ==
    /\ pc = "scored"
    /\ AnsweredThroughout(responses, 4)
    /\ overall_score = 500
    /\ Len(recommendations) = 1

\* C16: with the standard catalog and every answer 0, every category score
\* and the overall score are 0.0; the recommendation list is the "Needs
\* Improvement" summary, a "Focus Areas" entry naming the four categories,
\* and one entry per category, in catalog order, with the category's five
\* actions; each is shown, and written to the spreadsheet, with priority
\* "High".
C16_AllZeroExample ==
    (pc = "scored" /\ AnsweredThroughout(responses, 0)) =>
        /\ Len(category_scores) = 4
        /\ \A c \in CategorySet :
             c \in Keys(category_scores) /\ ScoreOf(category_scores, c) = 0
        /\ overall_score = 0
        /\ Len(recommendations) = 6
        /\ recommendations[1].level = "Needs Improvement"
        /\ recommendations[2].level = "Focus Areas"
        /\ recommendations[2].message =
               <<"Priority areas for improvement: ", "Personal Connect",
                 "Trust of Your Trade", "Social Trust", "Treating Style">>
        /\ \A k \in 1..4 :
             /\ DOMAIN recommendations[k + 2] = {"category", "score", "actions"}
             /\ recommendations[k + 2].category = Categories[k]
             /\ recommendations[k + 2].score = 0
             /\ recommendations[k + 2].actions = Actions(Categories[k])
             /\ Len(recommendations[k + 2].actions) = 5
        /\ Len(action_plan) = 4
        /\ \A k \in 1..4 :
             /\ action_plan[k].category = Categories[k]
             /\ action_plan[k].priority = "High"
        /\ Len(excel_data.ActionPlan) = 20
        /\ \A j \in 1..20 :
             /\ excel_data.ActionPlan[j].Category = Categories[((j - 1) \div 5) + 1]
             /\ excel_data.ActionPlan[j].Priority = "High"

\* The all-0 assessment has been scored and its action plan shown.
C16_Witness ==
    /\ pc = "scored"
    /\ AnsweredThroughout(responses, 0)
    /\ overall_score = 0
    /\ Len(recommendations) = 6
    /\ Len(action_plan) = 4

-----------------------------------------------------------------------------
(* SpecRecs: get_recommendations applied to score mappings over the four   *)
(* catalog categories, in catalog order, and to every overall score        *)

\* The category scores drawn: None, the ends of the scale and both sides of
\* the 4.0 target.
RecScores == {None, 0, TargetScore - 1, TargetScore, FullScale}

RecMappings ==
    {[k \in 1..Len(Categories) |-> [category |-> Categories[k], score |-> f[k]]] :
        f \in [1..Len(Categories) -> RecScores]}

RecOveralls == {None} \cup 0..FullScale

InitRecs ==
    /\ weights = Weights
    /\ radio = DefaultRadio
    /\ edits = 0
    /\ responses = EmptyDict
    /\ submitted = FALSE
    /\ pc = "recs"
    /\ missing = <<>>
    /\ scored = FALSE
    /\ category_scores \in RecMappings
    /\ overall_score \in RecOveralls
    /\ category_details = <<>>
    /\ recommendations = <<>>
    /\ action_plan = NoActionPlan
    /\ results_json = NoDownload
    /\ excel_data = NoDownload

\* recommendations = get_recommendations(category_scores, overall_score)
CallRecommendations ==
    /\ pc = "recs"
    /\ recommendations' = get_recommendations(category_scores, overall_score)
    /\ pc' = "recommended"
    /\ UNCHANGED <<weights, action_plan, results_json, excel_data, radio,
                   edits, responses, submitted, missing, scored,
                   category_scores, overall_score, category_details>>

NextRecs == CallRecommendations

SpecRecs == InitRecs /\ [][NextRecs]_vars

-----------------------------------------------------------------------------
(* Properties of get_recommendations                                       *)

\* No score handed to get_recommendations is None.
NoNone(scores, overall) ==
    /\ overall # None
    /\ \A k \in 1..Len(scores) : scores[k].score # None

\* C4: entry 0 is the summary entry, and its tier is the highest one whose
\* inclusive lower bound the overall score reaches: 4.5 Excellent, 4.0 Very
\* Good, 3.5 Good, 3.0 Fair, below that Needs Improvement.
C4_TierOfOverall ==
    (pc = "recommended" /\ NoNone(category_scores, overall_score)) =>
        /\ recommendations # <<>>
        /\ DOMAIN recommendations[1] = {"level", "message", "icon"}
        /\ (overall_score >= 450) <=> (recommendations[1].level = "Excellent")
        /\ (overall_score >= 400 /\ overall_score < 450)
              <=> (recommendations[1].level = "Very Good")
        /\ (overall_score >= 350 /\ overall_score < 400)
              <=> (recommendations[1].level = "Good")
        /\ (overall_score >= 300 /\ overall_score < 350)
              <=> (recommendations[1].level = "Fair")
        /\ (overall_score < 300) <=> (recommendations[1].level = "Needs Improvement")

\* An overall score of exactly 4.5 has been tiered.
C4_Witness ==
    /\ pc = "recommended"
    /\ NoNone(category_scores, overall_score)
    /\ overall_score = 450
    /\ recommendations[1].level = "Excellent"

\* The category-detail entries of a recommendation list.
IsDetail(r) == "actions" \in DOMAIN r

\* The category-detail entries the catalog prescribes for scores, from the
\* k-th catalog category on: one for each category scored below 4.0.
RECURSIVE ExpectedDetails(_, _)
ExpectedDetails(scores, k) ==
    IF k > Len(Categories) THEN <<>>
    ELSE (IF ScoreOf(scores, Categories[k]) < 400
          THEN <<[category |-> Categories[k],
                  score |-> ScoreOf(scores, Categories[k]),
                  actions |-> Actions(Categories[k])]>>
          ELSE <<>>)
         \o ExpectedDetails(scores, k + 1)

C10_FaultGivesEmptyList ==
    (pc = "recommended" /\ ~NoNone(category_scores, overall_score)) =>
        recommendations = <<>>

\* The overall score is a number, so the summary entry had been appended
\* when the None category score was compared.
C10_Witness ==
    /\ pc = "recommended"
    /\ overall_score = 450
    /\ category_scores[3].score = None
    /\ category_scores[1].score = 0
    /\ recommendations = <<>>

-----------------------------------------------------------------------------
(* Spec: the session of main().  Streamlit runs main() from top to bottom  *)
(* once per user action; st.rerun() ends the pass and asks for another.    *)
(* pc = "idle": a pass has ended and the page waits for the user;          *)
(* pc = "rerun": st.rerun() was called and the next pass has not yet run.  *)

\* A variant of ShowForm that never renders the form.
ShowFormNever(flag) == FALSE

\* "if not st.session_state.submitted": the form is rendered.
ShowForm(flag) == ~flag

\* A variant of ShowResults that shows the results whatever the flag.
ShowResultsAlways(flag) == TRUE

\* "if st.session_state.get('submitted', False)": tab2 scores, tab3
\* recommends, and both reset buttons are rendered.
ShowResults(flag) == flag

\* "if missing: ... else: st.session_state.submitted = True"
SubmitAccepted(missingList) == missingList = <<>>

\* The state after the first pass: 'responses' and 'submitted' initialised,
\* the form rendered with every radio on its default.
Init ==
    /\ weights = Weights
    /\ radio = DefaultRadio
    /\ edits = 0
    /\ responses = FormResponses(EmptyDict, DefaultRadio)
    /\ submitted = FALSE
    /\ pc = "idle"
    /\ missing = <<>>
    /\ scored = FALSE
    /\ category_scores = NoScores.category_scores
    /\ overall_score = NoScores.overall_score
    /\ category_details = NoScores.category_details
    /\ recommendations = <<>>
    /\ action_plan = NoActionPlan
    /\ results_json = NoDownload
    /\ excel_data = NoDownload

\* The locals of a pass that does not reach the scoring.
NotScored ==
    /\ scored' = FALSE
    /\ category_scores' = NoScores.category_scores
    /\ overall_score' = NoScores.overall_score
    /\ category_details' = NoScores.category_details
    /\ recommendations' = <<>>
    /\ action_plan' = NoActionPlan
    /\ results_json' = NoDownload
    /\ excel_data' = NoDownload

\* tab2 and tab3 of a pass: calculate_scores, then get_recommendations on
\* what it returned.
Scored ==
    /\ scored' = TRUE
    /\ \E fp \in FpErrors(responses) :
         LET result == calculate_scores(responses, fp)
         IN  /\ category_scores' = result.category_scores
             /\ overall_score' = result.overall_score
             /\ category_details' = result.category_details
             /\ ActionPlanTab(result.category_scores, result.overall_score,
                              result.category_details, responses)

\* The user picks option v of question i of category c in the form.  A radio
\* inside st.form changes in the browser only: no pass runs.
SelectOption(c, i, v) ==
    /\ pc = "idle"
    /\ ShowForm(submitted)
    /\ edits < MaxEdits
    /\ radio[c][i] # v
    /\ radio' = [radio EXCEPT ![c][i] = v]
    /\ edits' = edits + 1
    /\ UNCHANGED <<weights, action_plan, results_json, excel_data, responses,
                   submitted, pc, missing, scored, category_scores,
                   overall_score, category_details, recommendations>>

\* The user presses "Calculate My Professional Score": a pass in which the
\* form stores the radios' values in responses and validates them; with
\* nothing missing it sets submitted and calls st.rerun(), otherwise it
\* reports the missing answers and goes on to tab2 and tab3, which show
\* their hints.
Submit ==
    /\ pc = "idle"
    /\ ShowForm(submitted)
    /\ responses' = FormResponses(responses, radio)
    /\ missing' = validate_responses(responses')
    /\ IF SubmitAccepted(missing')
       THEN submitted' = TRUE /\ pc' = "rerun"
       ELSE submitted' = submitted /\ pc' = "idle"
    /\ NotScored
    /\ UNCHANGED <<weights, radio, edits>>

\* What the pass that st.rerun() asked for does to the session.  With
\* submitted set, the form is not rendered (Streamlit then drops the radios'
\* state); otherwise the form is rendered and stores the radios' values in
\* responses.
RerunSession ==
    /\ pc = "rerun"
    /\ pc' = "idle"
    /\ IF ShowForm(submitted)
       THEN /\ responses' = FormResponses(responses, radio)
            /\ UNCHANGED <<radio, edits>>
       ELSE /\ radio' = DefaultRadio
            /\ edits' = 0
            /\ UNCHANGED responses
    /\ UNCHANGED <<weights, submitted, missing>>

\* The pass that st.rerun() asked for: the session part, then tab2 and tab3,
\* which score and recommend when submitted is set.
Rerun ==
    /\ RerunSession
    /\ IF ShowResults(submitted) THEN Scored ELSE NotScored

\* "st.session_state.submitted = False; st.session_state.responses = {};
\* st.rerun()": what either reset button does to the session.
ResetSession ==
    /\ submitted' = FALSE
    /\ responses' = EmptyDict
    /\ pc' = "rerun"
    /\ UNCHANGED <<weights, radio, edits, missing>>

\* A variant of StartNewAssessment that clears the flag and keeps responses.
StartNewAssessmentKeepingResponses ==
    /\ pc = "idle"
    /\ ShowResults(submitted)
    /\ submitted' = FALSE
    /\ pc' = "rerun"
    /\ NotScored
    /\ UNCHANGED <<weights, responses, radio, edits, missing>>

\* The user presses "Start New Assessment" in the sidebar: the pass resets
\* the session and calls st.rerun() before it reaches the tabs.
StartNewAssessment ==
    /\ pc = "idle"
    /\ ShowResults(submitted)
    /\ ResetSession
    /\ NotScored

\* "Take Assessment Again" is rendered at the end of tab3, under the same
\* condition as the results.
TakeAgainOffered ==
    /\ pc = "idle"
    /\ ShowResults(submitted)

\* The user presses "Take Assessment Again" at the end of tab3: the pass
\* scores and recommends as usual, then resets the session and calls
\* st.rerun().
TakeAssessmentAgain ==
    /\ TakeAgainOffered
    /\ Scored
    /\ ResetSession

Next ==
    \/ \E c \in CategorySet : \E i \in 1..QuestionCount(c), v \in Answers : SelectOption(c, i, v)
    \/ Submit
    \/ Rerun
    \/ StartNewAssessment
    \/ TakeAssessmentAgain

Spec == Init /\ [][Next]_vars

-----------------------------------------------------------------------------
(* Properties of the session                                               *)

\* C7: submitted goes from false to true only in a Submit whose
\* validate_responses result is empty, submitted is never true beside a
\* non-empty missing list, and a pass scores and recommends only when it
\* starts with submitted true.
C7_ScoringOnlyAfterAcceptedSubmit ==
    [][/\ (~submitted /\ submitted') =>
            /\ pc = "idle"
            /\ responses' = FormResponses(responses, radio)
            /\ missing' = validate_responses(responses')
            /\ missing' = <<>>
       /\ (missing' # <<>>) => ~submitted'
       /\ scored' => (submitted /\ missing = <<>>)]_vars

\* A pass has scored an assessment in which the user changed an answer.
C7_Witness ==
    /\ pc = "idle"
    /\ submitted
    /\ scored
    /\ missing = <<>>
    /\ category_scores # <<>>
    /\ overall_score > 0
    /\ recommendations # <<>>

\* C8: whenever submitted is true, the ResponseSet holds, for every question
\* of every catalog category, exactly one answer in 0..4 and no None.
C8_SubmittedResponsesComplete ==
    submitted =>
        /\ ValidResponseSet(responses)
        /\ [k \in 1..Len(responses) |-> responses[k].category] = Categories

\* An assessment with answers of its own has been submitted and scored.
C8_Witness ==
    /\ submitted
    /\ pc = "idle"
    /\ scored
    /\ AnswersOf(responses, SocialTrust) = <<0, 4, 0, 0, 0>>

\* C11: a reset ("Start New Assessment", "Take Assessment Again") can be
\* taken only while submitted is true; the step that takes submitted from
\* true to false replaces the ResponseSet by the empty mapping and leaves
\* every radio on its default, and the ResponseSet becomes empty in no other
\* step.
C11_ResetReplacesResponses ==
    [][/\ (ENABLED StartNewAssessment \/ ENABLED TakeAssessmentAgain) => submitted
       /\ (submitted /\ ~submitted') =>
            /\ responses' = EmptyDict
            /\ radio' = DefaultRadio
       /\ (responses' = EmptyDict) => (submitted /\ pc = "idle" /\ ~submitted')]_vars

\* "Take Assessment Again" has just reset a scored assessment whose answers
\* were not all the default: its scores are still in the pass's locals while
\* the session holds no answer.
C11_Witness ==
    /\ pc = "rerun"
    /\ ~submitted
    /\ responses = EmptyDict
    /\ radio = DefaultRadio
    /\ scored
    /\ overall_score > 0

\* The scoring and the recommending of a pass return: whatever the
\* ResponseSet, calculate_scores yields a result (the fault result included)
\* and get_recommendations yields a list for it.
ScoringReturns(resp) ==
    \E fp \in FpErrors(resp) :
        LET result == calculate_scores(resp, fp)
        IN  /\ DOMAIN result = {"category_scores", "overall_score", "category_details"}
            /\ Len(get_recommendations(result.category_scores, result.overall_score)) >= 0

-----------------------------------------------------------------------------
(* SpecWeights: calculate_scores under other weights.  One category of the *)
(* catalog gets other positive weights and a row of answers of its own;    *)
(* the other categories keep their weights and hold one answer throughout. *)

\* The weights tried for a question: 0.1, 1.0 and MaxWeight.
WeightChoices == {1, 10, MaxWeight}

\* The catalog's weights with those of category c replaced.
WeightAssignments(c) ==
    {[Weights EXCEPT ![c] = row] : row \in [1..Len(Weights[c]) -> WeightChoices]}

\* The rows tried in the category: the two extremes and a mixed row.
ExtremeRows ==
    {[i \in 1..RowLength |-> MaxAnswer], [i \in 1..RowLength |-> 0], <<4, 0, 4, 4, 0>>}

\* ResponseSets with a row of ExtremeRows in category c and one answer
\* throughout the other categories.
ExtremeInputs(c) ==
    {FormResponses(EmptyDict,
                   [d \in CategorySet |->
                       IF d = c THEN row ELSE [i \in 1..RowLength |-> a]]) :
        row \in ExtremeRows, a \in Answers}

InitWeights ==
    /\ \E c \in CategorySet :
         /\ weights \in WeightAssignments(c)
         /\ responses \in ExtremeInputs(c)
    /\ radio = DefaultRadio
    /\ edits = 0
    /\ submitted = FALSE
    /\ pc = "call"
    /\ missing = <<>>
    /\ scored = FALSE
    /\ category_scores = NoScores.category_scores
    /\ overall_score = NoScores.overall_score
    /\ category_details = NoScores.category_details
    /\ recommendations = <<>>
    /\ action_plan = NoActionPlan
    /\ results_json = NoDownload
    /\ excel_data = NoDownload

SpecWeights == InitWeights /\ [][NextCalc]_vars

\* C13: whatever the positive weights of a category's questions and the
\* answers of the other categories, a category whose answers are all 4 gets
\* the score 5.0 exactly.
C13_AllMaxGivesFullScale ==
    (pc = "scored" /\ ValidResponseSet(responses)) =>
        \A c \in CategorySet :
            AllAnswersAre(responses, c, 4) =>
                /\ c \in Keys(category_scores)
                /\ ScoreOf(category_scores, c) = 500

\* Social Trust, with weights that are not the catalog's and not all equal,
\* is answered 4 throughout while the other categories are answered 1.
C13_Witness ==
    /\ pc = "scored"
    /\ weights[SocialTrust] = <<1, MaxWeight, 10, 1, MaxWeight>>
    /\ AllAnswersAre(responses, SocialTrust, 4)
    /\ AllAnswersAre(responses, PersonalConnect, 1)
    /\ ScoreOf(category_scores, SocialTrust) = 500
    /\ ScoreOf(category_scores, PersonalConnect) = 125

\* C14: whatever the weights and the answers of the other categories, a
\* category whose answers are all 0 gets the score 0.0 exactly.
C14_AllZeroGivesZero ==
    (pc = "scored" /\ ValidResponseSet(responses)) =>
        \A c \in CategorySet :
            AllAnswersAre(responses, c, 0) =>
                /\ c \in Keys(category_scores)
                /\ ScoreOf(category_scores, c) = 0

\* Treating Style, with weights that are not the catalog's, is answered 0
\* throughout while the other categories are answered 4.
C14_Witness ==
    /\ pc = "scored"
    /\ weights[TreatingStyle] = <<MaxWeight, 1, 1, 10, MaxWeight>>
    /\ AllAnswersAre(responses, TreatingStyle, 0)
    /\ AllAnswersAre(responses, TrustOfYourTrade, 4)
    /\ ScoreOf(category_scores, TreatingStyle) = 0
    /\ ScoreOf(category_scores, TrustOfYourTrade) = 500

-----------------------------------------------------------------------------
(* SpecPlan: tab3 on category scores around the priority bound 3.0 and the *)
(* target 4.0.                                                             *)

PlanScores ==
    {0, HighPriorityBelow - 1, HighPriorityBelow, HighPriorityBelow + 1,
     TargetScore - 1, TargetScore}

PlanMappings ==
    {[k \in 1..Len(Categories) |-> [category |-> Categories[k], score |-> f[k]]] :
        f \in [1..Len(Categories) -> PlanScores]}

PlanOveralls == {0, HighPriorityBelow, FullScale}

InitPlan ==
    /\ weights = Weights
    /\ radio = DefaultRadio
    /\ edits = 0
    /\ responses = FormResponses(EmptyDict, DefaultRadio)
    /\ submitted = TRUE
    /\ pc = "plan"
    /\ missing = <<>>
    /\ scored = TRUE
    /\ category_scores \in PlanMappings
    /\ overall_score \in PlanOveralls
    /\ category_details = <<>>
    /\ recommendations = <<>>
    /\ action_plan = NoActionPlan
    /\ results_json = NoDownload
    /\ excel_data = NoDownload

\* tab3 of a pass whose tab2 left category_scores and overall_score.
ShowActionPlan ==
    /\ pc = "plan"
    /\ ActionPlanTab(category_scores, overall_score, category_details, responses)
    /\ pc' = "planned"
    /\ UNCHANGED <<weights, radio, edits, responses, submitted, missing, scored,
                   category_scores, overall_score, category_details>>

NextPlan == ShowActionPlan

SpecPlan == InitPlan /\ [][NextPlan]_vars

\* The category entries of a recommendation list, in order.
CategoryEntries(recs) == SelectSeq(recs, LAMBDA r : "category" \in DOMAIN r)

\* The rows of the Action Plan sheet that belong to a category.
RowsOf(sheet, category) ==
    {j \in 1..Len(sheet) :
        "Category" \in DOMAIN sheet[j] /\ sheet[j].Category = category}

\* C18: every category entry of the recommendations is shown in the action
\* plan, and written to the Action Plan sheet once per action, with priority
\* "High" if its score is < 3.0 and "Medium" otherwise; the two agree.
C18_PriorityOfScore ==
    (pc = "planned") =>
        LET entries == CategoryEntries(recommendations)
        IN  /\ Len(action_plan) = Len(entries)
            /\ \A k \in 1..Len(entries) :
                 LET expected == IF entries[k].score < 300 THEN "High" ELSE "Medium"
                     rows == RowsOf(excel_data.ActionPlan, entries[k].category)
                 IN  /\ action_plan[k].category = entries[k].category
                     /\ action_plan[k].priority = expected
                     /\ Cardinality(rows) = Len(entries[k].actions)
                     /\ \A j \in rows :
                          /\ excel_data.ActionPlan[j].Priority = expected
                          /\ excel_data.ActionPlan[j].Priority = action_plan[k].priority

\* An action plan with an entry of score exactly 3.0, shown and written as
\* "Medium", next to one of score 2.99, shown and written as "High".
C18_Witness ==
    /\ pc = "planned"
    /\ Len(action_plan) = 2
    /\ action_plan[1].score = 300
    /\ action_plan[1].priority = "Medium"
    /\ action_plan[2].score = 299
    /\ action_plan[2].priority = "High"
    /\ excel_data.ActionPlan[1].Priority = "Medium"
    /\ excel_data.ActionPlan[10].Priority = "High"

-----------------------------------------------------------------------------
(* SpecMono: calculate_scores on a ResponseSet and then on the same set    *)
(* with one answer raised.                                                 *)

\* The rows of answers the first call is given, the same in each category.
MonoRows == [1..RowLength -> {0, 2, MaxAnswer}] \cup {<<2, 1, 4, 2, 4>>}

MonoInputs ==
    {FormResponses(EmptyDict, [c \in CategorySet |-> row]) : row \in MonoRows}

InitMono ==
    /\ weights = Weights
    /\ radio = DefaultRadio
    /\ edits = 0
    /\ responses \in MonoInputs
    /\ submitted = FALSE
    /\ pc = "call"
    /\ missing = <<>>
    /\ scored = FALSE
    /\ category_scores = NoScores.category_scores
    /\ overall_score = NoScores.overall_score
    /\ category_details = NoScores.category_details
    /\ recommendations = <<>>
    /\ action_plan = NoActionPlan
    /\ results_json = NoDownload
    /\ excel_data = NoDownload

\* calculate_scores is a function of its argument: where the second call
\* rounds the same number as the first, its floating-point error falls the
\* same way.  c is the category whose answers differ between the calls.
SameDirections(fp, c, result) ==
    /\ \A k \in 1..Len(category_details) :
         LET d == category_details[k].category
             n == category_details[k].normalized_score
         IN  (d # c /\ IsTie(n[1], n[2])) =>
                 (d \in fp.cats <=> ScoreOf(category_scores, d) = Round(n[1], n[2], TRUE))
    /\ (/\ SumScores(result.category_scores, 1) = SumScores(category_scores, 1)
        /\ IsTie(SumScores(category_scores, 1), Len(category_scores))) =>
            (fp.overall <=>
                overall_score = Round(SumScores(category_scores, 1), Len(category_scores), TRUE))

\* A second call of calculate_scores, on the ResponseSet of the first with
\* answer i of category c raised to v.
CallScoresRaised(c, i, v) ==
    /\ pc = "scored"
    /\ AnswersOf(responses, c)[i] < v
    /\ LET raised == DictSet(responses, c, [AnswersOf(responses, c) EXCEPT ![i] = v])
       IN  /\ responses' = raised
           /\ \E fp \in FpErrors(raised) :
                LET result == calculate_scores(raised, fp)
                IN  /\ SameDirections(fp, c, result)
                    /\ category_scores' = result.category_scores
                    /\ overall_score' = result.overall_score
                    /\ category_details' = result.category_details
                    /\ ActionPlanTab(result.category_scores, result.overall_score,
                                     result.category_details, raised)
    /\ pc' = "rescored"
    /\ UNCHANGED <<weights, radio, edits, submitted, missing, scored>>

NextMono ==
    \/ CallScores
    \/ \E c \in CategorySet : \E i \in 1..QuestionCount(c), v \in Answers :
         CallScoresRaised(c, i, v)

SpecMono == InitMono /\ [][NextMono]_vars

\* r2 is r1 with one answer of category c higher and nothing else changed.
RaisedIn(r1, r2, c) ==
    /\ Keys(r1) = Keys(r2)
    /\ \A d \in Keys(r1) \ {c} : AnswersOf(r2, d) = AnswersOf(r1, d)
    /\ \E i \in 1..5 :
         /\ AnswersOf(r2, c)[i] > AnswersOf(r1, c)[i]
         /\ \A j \in (1..5) \ {i} : AnswersOf(r2, c)[j] = AnswersOf(r1, c)[j]

\* C19: of two valid ResponseSets that differ in one answer of one category,
\* the one with the higher answer gets a score for that category and an
\* overall score that are not lower, and the same scores in the other
\* categories.
C19_ScoresMonotone ==
    [][(/\ pc = "scored"
        /\ pc' = "rescored"
        /\ ValidResponseSet(responses)
        /\ ValidResponseSet(responses')) =>
          \A c \in CategorySet :
              RaisedIn(responses, responses', c) =>
                  /\ ScoreOf(category_scores', c) >= ScoreOf(category_scores, c)
                  /\ overall_score' >= overall_score
                  /\ \A d \in CategorySet \ {c} :
                       ScoreOf(category_scores', d) = ScoreOf(category_scores, d)]_vars

\* The second call has scored the set in which one answer of Personal
\* Connect was raised from 2 to 4 while the other categories kept their row.
C19_Witness ==
    /\ pc = "rescored"
    /\ AnswersOf(responses, PersonalConnect) = <<4, 0, 2, 2, 0>>
    /\ \A d \in CategorySet \ {PersonalConnect} :
         AnswersOf(responses, d) = <<2, 0, 2, 2, 0>>
    /\ ScoreOf(category_scores, PersonalConnect) > ScoreOf(category_scores, TrustOfYourTrade)
    /\ overall_score > 0

====
